---- MODULE Spec2Model ----
(***************************************************************************)
(* Alarm scheduling and triggering engine of AlarmClockApp                 *)
(* (src/alarm_clock.py): the alarm list, the persisted alarm list, the     *)
(* background checker thread (_alarm_checker / check_alarms /              *)
(* trigger_alarm) and the user handlers save_alarm, delete_alarm,          *)
(* snooze_alarm and dismiss_alarm.                                         *)
(*                                                                         *)
(* Time is counted in slots of one checker period (time.sleep(30)), so a   *)
(* wall-clock minute holds SlotsPerMinute slots.  The day is scaled down   *)
(* to HoursPerDay hours of MinutesPerHour minutes; the code only ever      *)
(* compares the hour and the minute of two times of day.                   *)
(*                                                                         *)
(* self.alarms is a sequence of alarm dictionaries.  self.active_alarm is  *)
(* a reference to a dictionary: the position of that dictionary in the     *)
(* list, None, or Detached when the dictionary was removed from the list   *)
(* while it was ringing (its contents are then kept in detached).          *)
(* The field missing holds the keys among 'active' and 'repeat' that a      *)
(* dictionary loaded from the config file does not have (the dictionaries   *)
(* the program builds have both).                                          *)
(* Fields whose names start with h_ are history, not program state:        *)
(*   h_fired      trigger_alarm was invoked with it in the current minute  *)
(*   h_rang       trigger_alarm was invoked with it at some time           *)
(*   h_dismissed  the day its ringing was dismissed, or -1                 *)
(*   h_snoozed    its ringing was snoozed and the snooze has not run out:  *)
(*                the slot of the first pass after the call, or -1         *)
(*   h_created    of a snooze record: the slot of the snooze_alarm call    *)
(*   h_late       of a snooze record: the call came after that slot's pass *)
(*   h_seen       how often the running pass has evaluated it, or -1 when  *)
(*                it was not in the list when the pass began (only kept    *)
(*                where a pass advances one alarm at a time, SpecEdit)     *)
(***************************************************************************)
EXTENDS Integers, Sequences, FiniteSets, TLC

\* ---------------------------------------------------------------- bounds
MaxAlarms == 2          \* length of self.alarms
HoursPerDay == 2        \* scaled day: hours 0 .. HoursPerDay-1
MinutesPerHour == 3     \* scaled hour: minutes 0 .. MinutesPerHour-1
MaxSlot == 15           \* the checker stops sleeping after this slot

\* ------------------------------------------------------ program constants
snooze_time == 5        \* self.snooze_time, minutes
SlotsPerMinute == 2     \* time.sleep(30): two checker periods per minute

SlotsPerDay == HoursPerDay * MinutesPerHour * SlotsPerMinute
None == 0
Detached == -1

\* ------------------------------------------------------------ wall clock
\* datetime.datetime.now() at slot t: hour, minute and position in the minute.
Hour(t) == (t % SlotsPerDay) \div (MinutesPerHour * SlotsPerMinute)
Minute(t) == ((t % SlotsPerDay) \div SlotsPerMinute) % MinutesPerHour
Second(t) == t % SlotsPerMinute
Day(t) == t \div SlotsPerDay
\* the wall-clock minute (date and time of day) that slot t lies in
AbsMinute(t) == t \div SlotsPerMinute

VARIABLES
    now,            \* wall clock, in slots
    pc,             \* _alarm_checker: "check" (about to call check_alarms) or "sleep"
    alarms,         \* self.alarms
    active_alarm,   \* self.active_alarm: position in alarms, None or Detached
    detached,       \* the ringing dictionary once delete_alarm took it off the list
    alert_shown,    \* alarm_alert_frame is packed (the alert screen is shown)
    config_alarms,  \* self.config['alarms']
    file_alarms,    \* the "alarms" entry of alarm_config.json
    calls,          \* collaborator calls made by the last handler, in order
    fired,          \* positions trigger_alarm was invoked with by the last handler
    raised,         \* the last handler ended by an exception
    c_i,            \* checker thread: position of the iterator of check_alarms
    c_cur,          \* checker thread: position of the loop variable alarm
    c_to_save,      \* checker thread: alarms_to_save of its save_alarms
    u_pc,           \* UI thread: where it is in save_alarm
    u_to_save,      \* UI thread: alarms_to_save of its save_alarms
    form,           \* the fields of the alarm setup screen: hour_var, minute_var,
                    \* am_pm_var, repeat_var, light_control_var
    delete_arg      \* <<the dictionary the last delete_alarm(alarm) call was given>>,
                    \* where the call is made with any dictionary (DeleteAlarmArg)

\* the threads' positions and locals when their statements are interleaved
locals == <<c_i, c_cur, c_to_save, u_pc, u_to_save>>

vars == <<now, pc, alarms, active_alarm, detached, alert_shown,
          config_alarms, file_alarms, calls, fired, raised, locals, form,
          delete_arg>>

\* ------------------------------------------------------------ data model
NoAlarm == [hour |-> -1, minute |-> -1, second |-> 0, repeat |-> FALSE,
            light_control |-> FALSE, active |-> FALSE,
            triggered_today |-> FALSE, is_snooze |-> FALSE, missing |-> {},
            h_fired |-> FALSE, h_rang |-> FALSE, h_dismissed |-> -1, h_snoozed |-> -1,
            h_created |-> -1, h_late |-> FALSE, h_seen |-> -1]

\* the dictionary save_alarm builds (datetime.time(hour, minute): second 0)
NewAlarm(hour, minute, repeat, light) ==
    [NoAlarm EXCEPT !.hour = hour, !.minute = minute, !.repeat = repeat,
                    !.light_control = light, !.active = TRUE]

\* mutant: the snooze length taken as a number of checker periods
SnoozeTargetInPeriods(t) == t + snooze_time

\* now + timedelta(minutes=self.snooze_time)
SnoozeTarget(t) == t + snooze_time * SlotsPerMinute

\* mutant: the snooze counted from the time of the ringing alarm, not from now
SnoozeRecordAtAlarmTime(t, a, late) ==
    LET target == (a.hour * MinutesPerHour + a.minute) * SlotsPerMinute + a.second
                    + snooze_time * SlotsPerMinute
    IN  [NoAlarm EXCEPT !.hour = Hour(target), !.minute = Minute(target),
                        !.second = Second(target),
                        !.light_control = a.light_control, !.active = TRUE,
                        !.is_snooze = TRUE, !.h_created = t, !.h_late = late]

\* the dictionary snooze_alarm appends at slot t for the ringing alarm a
\* (late: the checker has already run its pass of slot t)
SnoozeRecord(t, a, late) ==
    [NoAlarm EXCEPT !.hour = Hour(SnoozeTarget(t)), !.minute = Minute(SnoozeTarget(t)),
                    !.second = Second(SnoozeTarget(t)),
                    !.light_control = a.light_control, !.active = TRUE,
                    !.is_snooze = TRUE, !.h_created = t, !.h_late = late]

\* the dictionary as Python compares it (==): its keys and values
Dict(a) ==
    [hour |-> a.hour, minute |-> a.minute, second |-> a.second, repeat |-> a.repeat,
     light_control |-> a.light_control, active |-> a.active,
     triggered_today |-> a.triggered_today, is_snooze |-> a.is_snooze]

\* alarm.copy() with 'time' replaced by strftime("%H:%M"): the seconds are
\* lost, and a key the dictionary does not have is not written
SavedCopy(a) ==
    LET copy == [time |-> <<a.hour, a.minute>>, repeat |-> a.repeat,
                 light_control |-> a.light_control, active |-> a.active,
                 triggered_today |-> a.triggered_today, is_snooze |-> a.is_snooze]
    IN  IF a.missing = {} THEN copy
        ELSE [k \in (DOMAIN copy) \ a.missing |-> copy[k]]

Range(s) == {s[i] : i \in 1..Len(s)}

\* save_alarms followed by save_config: the list as it is written out
SavedList(lst) == [i \in 1..Len(lst) |-> SavedCopy(lst[i])]

\* ------------------------------------------------------------ handlers
\* The state a handler works on, threaded through its statements.
Mem == [alarms |-> alarms, active_alarm |-> active_alarm, detached |-> detached,
        alert_shown |-> alert_shown,
        config_alarms |-> config_alarms, file_alarms |-> file_alarms,
        calls |-> <<>>, fired |-> <<>>, raised |-> FALSE]

\* what the bulb's API does with a request: there is no API object
\* (self.tuya_api is None), or the request succeeds, is answered without
\* success, or raises
LightResults == {"no_api", "success", "failure", "exception"}

Log(m, entries) == [m EXCEPT !.calls = @ \o entries]

\* mutant: control_light without its try/except, the API's exception escapes
ControlLightRaises(m, on, res) ==
    LET call == IF on THEN "light_on" ELSE "light_off" IN
    IF res = "success" THEN Log(m, <<call>>)
    ELSE IF res = "exception" THEN [Log(m, <<call>>) EXCEPT !.raised = TRUE]
    ELSE Log(m, <<call, "showerror">>)

\* mutant: control_light that only ever switches the bulb on
ControlLightOnOnly(m, on, res) ==
    IF ~on THEN m
    ELSE IF res = "success" THEN Log(m, <<"light_on">>)
    ELSE Log(m, <<"light_on", "showerror">>)

\* control_light(on): every failure ends in a message box, none is raised
ControlLight(m, on, res) ==
    LET call == IF on THEN "light_on" ELSE "light_off" IN
    IF res = "success" THEN Log(m, <<call>>) ELSE Log(m, <<call, "showerror">>)

\* play_alarm_sound: a failure of the mixer falls back to the system bell
PlayAlarmSound(m, soundOk) ==
    IF soundOk THEN Log(m, <<"sound_play">>) ELSE Log(m, <<"sound_play", "bell">>)

\* show_alarm_alert: the alert frame is packed
ShowAlarmAlert(m) == Log([m EXCEPT !.alert_shown = TRUE], <<"alert">>)

\* mutant: trigger_alarm starting the sound before it turns the light on
TriggerAlarmSoundFirst(m, i, res, soundOk) ==
    LET m0 == [m EXCEPT !.active_alarm = i, !.detached = NoAlarm,
                        !.fired = Append(@, i)]
        m1 == PlayAlarmSound(m0, soundOk)
        m2 == IF m1.alarms[i].light_control THEN ControlLight(m1, TRUE, res) ELSE m1
    IN  ShowAlarmAlert(m2)

\* trigger_alarm(alarm), alarm being self.alarms[i]
TriggerAlarm(m, i, res, soundOk) ==
    LET m0 == [m EXCEPT !.active_alarm = i, !.detached = NoAlarm,
                        !.fired = Append(@, i)]
        m1 == IF m0.alarms[i].light_control THEN ControlLight(m0, TRUE, res) ELSE m0
        m2 == IF m1.raised THEN m1 ELSE PlayAlarmSound(m1, soundOk)
    IN  IF m2.raised THEN m2 ELSE ShowAlarmAlert(m2)

\* mutant: save_alarms without its call of save_config
SaveAlarmsConfigOnly(m) == [m EXCEPT !.config_alarms = SavedList(m.alarms)]

\* save_alarms: config['alarms'] is rebuilt from the list, then save_config
SaveAlarms(m) ==
    [m EXCEPT !.config_alarms = SavedList(m.alarms),
              !.file_alarms = SavedList(m.alarms)]

\* the comparison of check_alarms: hours and minutes
TimeMatches(t, a) == Hour(t) = a.hour /\ Minute(t) = a.minute

\* one-time alarm that has already triggered
AlreadyTriggered(a) == ~a.repeat /\ a.triggered_today

\* the body of the loop of check_alarms for self.alarms[i]
\* (alarm['active'] and alarm['repeat'] raise KeyError when the key is missing)
CheckOne(m, i, res, soundOk) ==
    LET a == m.alarms[i] IN
    IF "active" \in a.missing THEN [m EXCEPT !.raised = TRUE]
    ELSE IF ~a.active THEN m
    ELSE IF ~TimeMatches(now, a) THEN m
    ELSE IF "repeat" \in a.missing THEN [m EXCEPT !.raised = TRUE]
    ELSE IF AlreadyTriggered(a) THEN m
    ELSE LET m1 == TriggerAlarm(m, i, res, soundOk) IN
         IF m1.raised THEN m1
         ELSE IF ~m1.alarms[i].repeat
              THEN SaveAlarms([m1 EXCEPT !.alarms[i].triggered_today = TRUE])
              ELSE m1

\* mutant: the loop of check_alarms left after the first alarm it fires
RECURSIVE CheckFromUntilFired(_, _, _, _)
CheckFromUntilFired(i, m, res, soundOk) ==
    IF i > Len(m.alarms) \/ m.raised \/ m.fired # <<>> THEN m
    ELSE CheckFromUntilFired(i + 1, CheckOne(m, i, res, soundOk), res, soundOk)

\* check_alarms: for alarm in self.alarms, from position i on
RECURSIVE CheckFrom(_, _, _, _)
CheckFrom(i, m, res, soundOk) ==
    IF i > Len(m.alarms) \/ m.raised THEN m
    ELSE CheckFrom(i + 1, CheckOne(m, i, res, soundOk), res, soundOk)

CheckAlarmsResult(res, soundOk) == CheckFrom(1, Mem, res, soundOk)

\* history: the alarms of m.fired have fired in the current minute
MarkFired(m) ==
    [m EXCEPT !.alarms = [i \in 1..Len(m.alarms) |->
        IF i \in Range(m.fired) THEN [m.alarms[i] EXCEPT !.h_fired = TRUE, !.h_rang = TRUE]
        ELSE m.alarms[i]]]

\* the handler's result becomes the program state
Commit(m) ==
    /\ alarms' = m.alarms
    /\ active_alarm' = m.active_alarm
    /\ detached' = m.detached
    /\ alert_shown' = m.alert_shown
    /\ config_alarms' = m.config_alarms
    /\ file_alarms' = m.file_alarms
    /\ calls' = m.calls
    /\ fired' = m.fired
    /\ raised' = m.raised

\* _alarm_checker: try: self.check_alarms() except: print
\* (the outcomes of the collaborators are drawn in a pass that fires an alarm)
CheckAlarms ==
    /\ pc = "check"
    /\ IF CheckAlarmsResult("success", TRUE).fired = <<>>
       THEN Commit(CheckAlarmsResult("success", TRUE))
       ELSE \E res \in LightResults, soundOk \in BOOLEAN :
               Commit(MarkFired(CheckAlarmsResult(res, soundOk)))
    /\ pc' = "sleep"
    /\ UNCHANGED <<form, delete_arg, now, locals>>

\* the end T+N of a snooze of N = snooze_time minutes that began at slot t
SnoozeEnd(t) == t + snooze_time * SlotsPerMinute

\* history kept up with the clock: h_fired is about the current minute, and
\* h_snoozed is dropped when the snooze interval is over
Tick(a, t) ==
    [a EXCEPT !.h_fired = @ /\ AbsMinute(t) = AbsMinute(t - 1),
              !.h_snoozed = IF @ >= 0 /\ t >= SnoozeEnd(@) THEN -1 ELSE @]

\* _alarm_checker: time.sleep(30)
Sleep ==
    /\ pc = "sleep"
    /\ now < MaxSlot
    /\ now' = now + 1
    /\ pc' = "check"
    /\ alarms' = [i \in 1..Len(alarms) |-> Tick(alarms[i], now + 1)]
    /\ detached' = IF active_alarm = Detached THEN Tick(detached, now + 1) ELSE detached
    /\ calls' = <<>>
    /\ fired' = <<>>
    /\ raised' = FALSE
    /\ UNCHANGED <<form, delete_arg, active_alarm, alert_shown, config_alarms, file_alarms, locals>>

\* the alarms the user enters on the alarm setup screen: <<hour, minute>>,
\* repeat, light control
SetupInputs ==
    {<<<<0, 1>>, FALSE, TRUE>>, <<<<0, 1>>, TRUE, FALSE>>}

\* save_alarm, with the form fields already converted to a 24-hour time
SaveAlarm ==
    /\ Len(alarms) < MaxAlarms
    /\ \E inp \in SetupInputs :
          LET m1 == [Mem EXCEPT !.alarms =
                        Append(@, NewAlarm(inp[1][1], inp[1][2], inp[2], inp[3]))]
          IN  Commit(SaveAlarms(m1))
    /\ UNCHANGED <<form, delete_arg, now, pc, locals>>

\* list.remove(x) for x = lst[i]: the position of the first element equal to x
FirstEqual(lst, i) ==
    CHOOSE k \in 1..i : /\ Dict(lst[k]) = Dict(lst[i])
                        /\ \A j \in 1..(k - 1) : Dict(lst[j]) # Dict(lst[i])

RemoveAt(lst, k) == [j \in 1..(Len(lst) - 1) |-> IF j < k THEN lst[j] ELSE lst[j + 1]]

\* delete_alarm(alarm), from the delete button of the listed alarm self.alarms[i]
DeleteAlarm ==
    /\ \E i \in 1..Len(alarms) :
          LET k == FirstEqual(alarms, i)
              m1 == [Mem EXCEPT
                       !.alarms = RemoveAt(alarms, k),
                       !.active_alarm = IF @ = k THEN Detached
                                        ELSE IF @ > k THEN @ - 1 ELSE @,
                       !.detached = IF active_alarm = k THEN alarms[k] ELSE @]
          IN  Commit(SaveAlarms(m1))
    /\ UNCHANGED <<form, delete_arg, now, pc, locals>>

\* the dictionary self.active_alarm refers to
ActiveDict(m) == IF m.active_alarm = Detached THEN m.detached ELSE m.alarms[m.active_alarm]

\* an assignment to a key of the dictionary self.active_alarm refers to
WithActive(m, a) ==
    IF m.active_alarm = Detached THEN [m EXCEPT !.detached = a]
    ELSE [m EXCEPT !.alarms[m.active_alarm] = a]

\* self.active_alarm = None
CloseSession(m) ==
    [m EXCEPT !.alert_shown = FALSE, !.active_alarm = None, !.detached = NoAlarm]

\* mutant: snooze_alarm and dismiss_alarm guarding the missing session with a
\* default instead of failing: the snooze record is appended and saved anyway
NoSessionSnoozes(m) ==
    SaveAlarms([Log(m, <<"sound_stop">>) EXCEPT
                  !.alarms = Append(@, SnoozeRecord(now, NoAlarm, pc = "sleep"))])

\* snooze_alarm and dismiss_alarm with self.active_alarm None: the sound is
\* stopped, then self.active_alarm.get raises AttributeError before the list,
\* the light or the file is touched
NoSession(m) == [Log(m, <<"sound_stop">>) EXCEPT !.raised = TRUE]

\* snooze_alarm
SnoozeAlarm ==
    /\ IF active_alarm = None
       THEN Commit(NoSession(Mem))
       ELSE /\ Len(alarms) < MaxAlarms
            /\ LET m1 == Log(Mem, <<"sound_stop">>)
                   late == pc = "sleep"
                   m2 == WithActive(m1, [ActiveDict(m1) EXCEPT
                                           !.h_snoozed = IF late THEN now + 1 ELSE now])
                   m3 == [m2 EXCEPT !.alarms =
                             Append(@, SnoozeRecord(now, ActiveDict(m1), late))]
               IN  Commit(CloseSession(SaveAlarms(m3)))
    /\ UNCHANGED <<form, delete_arg, now, pc, locals>>

\* mutant: the test on repeat inverted
DeactivatesRepeating(a) == a.repeat /\ ~a.is_snooze

\* mutant: the test on repeat left out
DeactivatesAny(a) == ~a.is_snooze

\* dismiss_alarm: "If this was a one-time alarm, deactivate it"
Deactivates(a) == ~a.repeat /\ ~a.is_snooze

\* dismiss_alarm
DismissAlarm ==
    /\ IF active_alarm = None
       THEN Commit(NoSession(Mem))
       ELSE \E res \in IF ActiveDict(Mem).light_control THEN LightResults ELSE {"success"} :
               LET a == ActiveDict(Mem)
                   m1 == Log(Mem, <<"sound_stop">>)
                   m2 == IF a.light_control THEN ControlLight(m1, FALSE, res) ELSE m1
                   m3 == WithActive(m2, [ActiveDict(m2) EXCEPT !.h_dismissed = Day(now)])
                   m4 == IF Deactivates(a)
                         THEN SaveAlarms(WithActive(m3, [ActiveDict(m3) EXCEPT !.active = FALSE]))
                         ELSE m3
               IN  Commit(CloseSession(m4))
    /\ UNCHANGED <<form, delete_arg, now, pc, locals>>

\* the form fields as create_alarm_setup_screen and show_alarm_setup set them;
\* a text is a sequence of characters
ResetForm == [hour_var |-> <<"1", "2">>, minute_var |-> <<"0", "0">>, am_pm_var |-> "AM",
              repeat_var |-> FALSE, light_control_var |-> FALSE]

\* the state after __init__ of a first start: no alarms stored yet
Init ==
    /\ now = 0
    /\ pc = "check"
    /\ alarms = <<>>
    /\ active_alarm = None
    /\ detached = NoAlarm
    /\ alert_shown = FALSE
    /\ config_alarms = <<>>
    /\ file_alarms = <<>>
    /\ calls = <<>>
    /\ fired = <<>>
    /\ raised = FALSE
    /\ c_i = 0
    /\ c_cur = 0
    /\ c_to_save = <<>>
    /\ u_pc = "idle"
    /\ u_to_save = <<>>
    /\ form = ResetForm
    /\ delete_arg = <<>>

Next ==
    \/ CheckAlarms
    \/ Sleep
    \/ SaveAlarm
    \/ DeleteAlarm
    \/ SnoozeAlarm
    \/ DismissAlarm

Spec == Init /\ [][Next]_vars

\* ------------------------------------------- the two threads, interleaved
\* The checker thread (threading.Thread(target=self._alarm_checker)) and the
\* UI thread share self.alarms, self.config and the file without a lock.
\* Here check_alarms and save_alarm advance one statement at a time:
\*   checker  pc:   check -> iter -> (trigger -> mark -> copy -> assign ->
\*                  write -> iter)* -> sleep -> check
\*   UI       u_pc: idle -> copy -> assign -> write -> idle
\* The collaborators succeed in this specification.

\* check_alarms: now = datetime.datetime.now().time(); iter(self.alarms)
ConcStart ==
    /\ pc = "check"
    /\ pc' = "iter"
    /\ c_i' = 1
    /\ c_cur' = 0
    /\ calls' = <<>>
    /\ fired' = <<>>
    /\ raised' = FALSE
    /\ UNCHANGED <<form, delete_arg, now, alarms, active_alarm, detached, alert_shown, config_alarms,
                   file_alarms, c_to_save, u_pc, u_to_save>>

\* for alarm in self.alarms: the next element, and the tests that select it
ConcIter ==
    /\ pc = "iter"
    /\ IF c_i > Len(alarms)
       THEN pc' = "sleep" /\ UNCHANGED <<c_i, c_cur>>
       ELSE /\ c_i' = c_i + 1
            /\ c_cur' = c_i
            /\ pc' = IF /\ alarms[c_i].active
                        /\ TimeMatches(now, alarms[c_i])
                        /\ ~AlreadyTriggered(alarms[c_i])
                     THEN "trigger" ELSE "iter"
    /\ UNCHANGED <<form, delete_arg, now, alarms, active_alarm, detached, alert_shown, config_alarms,
                   file_alarms, calls, fired, raised, c_to_save, u_pc, u_to_save>>

\* self.trigger_alarm(alarm)
ConcTrigger ==
    /\ pc = "trigger"
    /\ LET m0 == [Mem EXCEPT !.calls = calls, !.fired = fired]
           m1 == TriggerAlarm(m0, c_cur, "success", TRUE)
       IN  Commit(MarkFired(m1))
    /\ pc' = IF alarms[c_cur].repeat THEN "iter" ELSE "mark"
    /\ UNCHANGED <<form, delete_arg, now, locals>>

\* alarm['triggered_today'] = True
ConcMark ==
    /\ pc = "mark"
    /\ alarms' = [alarms EXCEPT ![c_cur].triggered_today = TRUE]
    /\ pc' = "copy"
    /\ c_to_save' = <<>>
    /\ UNCHANGED <<form, delete_arg, now, active_alarm, detached, alert_shown, config_alarms, file_alarms,
                   calls, fired, raised, c_i, c_cur, u_pc, u_to_save>>

\* save_alarms in the checker thread: for alarm in self.alarms: append a copy
ConcCopy ==
    /\ pc = "copy"
    /\ IF Len(c_to_save) < Len(alarms)
       THEN /\ c_to_save' = Append(c_to_save, SavedCopy(alarms[Len(c_to_save) + 1]))
            /\ pc' = pc
       ELSE /\ pc' = "assign"
            /\ UNCHANGED c_to_save
    /\ UNCHANGED <<form, delete_arg, now, alarms, active_alarm, detached, alert_shown, config_alarms,
                   file_alarms, calls, fired, raised, c_i, c_cur, u_pc, u_to_save>>

\* save_alarms in the checker thread: self.config['alarms'] = alarms_to_save
ConcAssign ==
    /\ pc = "assign"
    /\ config_alarms' = c_to_save
    /\ pc' = "write"
    /\ UNCHANGED <<form, delete_arg, now, alarms, active_alarm, detached, alert_shown, file_alarms,
                   calls, fired, raised, locals>>

\* save_config in the checker thread: json.dump(self.config, f)
ConcWrite ==
    /\ pc = "write"
    /\ file_alarms' = config_alarms
    /\ pc' = "iter"
    /\ c_to_save' = <<>>
    /\ UNCHANGED <<form, delete_arg, now, alarms, active_alarm, detached, alert_shown, config_alarms,
                   calls, fired, raised, c_i, c_cur, u_pc, u_to_save>>

\* time.sleep(30)
ConcSleep ==
    /\ pc = "sleep"
    /\ now < MaxSlot
    /\ now' = now + 1
    /\ pc' = "check"
    /\ alarms' = [i \in 1..Len(alarms) |-> Tick(alarms[i], now + 1)]
    /\ calls' = <<>>
    /\ fired' = <<>>
    /\ UNCHANGED <<form, delete_arg, active_alarm, detached, alert_shown, config_alarms, file_alarms,
                   raised, locals>>

\* save_alarm in the UI thread: self.alarms.append(alarm)
ConcSaveAppend ==
    /\ u_pc = "idle"
    /\ Len(alarms) < MaxAlarms
    /\ \E inp \in SetupInputs :
          alarms' = Append(alarms, NewAlarm(inp[1][1], inp[1][2], inp[2], inp[3]))
    /\ u_pc' = "copy"
    /\ u_to_save' = <<>>
    /\ UNCHANGED <<form, delete_arg, now, pc, active_alarm, detached, alert_shown, config_alarms,
                   file_alarms, calls, fired, raised, c_i, c_cur, c_to_save>>

\* save_alarms in the UI thread: for alarm in self.alarms: append a copy
ConcSaveCopy ==
    /\ u_pc = "copy"
    /\ IF Len(u_to_save) < Len(alarms)
       THEN /\ u_to_save' = Append(u_to_save, SavedCopy(alarms[Len(u_to_save) + 1]))
            /\ u_pc' = u_pc
       ELSE /\ u_pc' = "assign"
            /\ UNCHANGED u_to_save
    /\ UNCHANGED <<form, delete_arg, now, pc, alarms, active_alarm, detached, alert_shown, config_alarms,
                   file_alarms, calls, fired, raised, c_i, c_cur, c_to_save>>

\* save_alarms in the UI thread: self.config['alarms'] = alarms_to_save
ConcSaveAssign ==
    /\ u_pc = "assign"
    /\ config_alarms' = u_to_save
    /\ u_pc' = "write"
    /\ UNCHANGED <<form, delete_arg, now, pc, alarms, active_alarm, detached, alert_shown, file_alarms,
                   calls, fired, raised, c_i, c_cur, c_to_save, u_to_save>>

\* save_config in the UI thread, then show_main_screen
ConcSaveWrite ==
    /\ u_pc = "write"
    /\ file_alarms' = config_alarms
    /\ u_pc' = "idle"
    /\ u_to_save' = <<>>
    /\ UNCHANGED <<form, delete_arg, now, pc, alarms, active_alarm, detached, alert_shown, config_alarms,
                   calls, fired, raised, c_i, c_cur, c_to_save>>

NextConc ==
    \/ ConcStart
    \/ ConcIter
    \/ ConcTrigger
    \/ ConcMark
    \/ ConcCopy
    \/ ConcAssign
    \/ ConcWrite
    \/ ConcSleep
    \/ ConcSaveAppend
    \/ ConcSaveCopy
    \/ ConcSaveAssign
    \/ ConcSaveWrite

SpecConc == Init /\ [][NextConc]_vars


\* ------------------------------------------------------ restart and loading
\* datetime.datetime.strptime(alarm['time'], "%H:%M") succeeds: the saved text,
\* kept here as the sequence of its numbers, is an hour and a minute in range
WellFormedTime(t) == Len(t) = 2 /\ t[1] \in 0..23 /\ t[2] \in 0..59

\* the try block of load_alarms ends without an exception for the record r
Loadable(r) == "time" \in DOMAIN r /\ WellFormedTime(r.time)

\* the value of the key k of the record r, or FALSE when r has no such key
\* (what .get(k, False) returns; 'active' and 'repeat' are never read so)
KeyOf(r, k) == IF k \in DOMAIN r THEN r[k] ELSE FALSE

\* the dictionary load_alarms appends for the record r: 'time' becomes a
\* datetime.time of that hour and minute (second 0), the other keys are kept
\* and no key is added
LoadOne(r) ==
    [NoAlarm EXCEPT !.hour = r.time[1], !.minute = r.time[2],
                    !.repeat = KeyOf(r, "repeat"),
                    !.light_control = KeyOf(r, "light_control"),
                    !.active = KeyOf(r, "active"),
                    !.triggered_today = KeyOf(r, "triggered_today"),
                    !.is_snooze = KeyOf(r, "is_snooze"),
                    !.missing = {"active", "repeat"} \ DOMAIN r]

\* mutant: load_alarms without the try/except around a record: the first
\* record that cannot be converted ends the loading
RECURSIVE LoadUntilMalformed(_)
LoadUntilMalformed(cfg) ==
    IF cfg = <<>> \/ ~Loadable(Head(cfg)) THEN <<>>
    ELSE <<LoadOne(Head(cfg))>> \o LoadUntilMalformed(Tail(cfg))

\* load_alarms: for alarm in self.config['alarms'], except: continue
RECURSIVE LoadAlarms(_)
LoadAlarms(cfg) ==
    IF cfg = <<>> THEN <<>>
    ELSE IF Loadable(Head(cfg)) THEN <<LoadOne(Head(cfg))>> \o LoadAlarms(Tail(cfg))
    ELSE LoadAlarms(Tail(cfg))

\* datetime.time(hour, minute) where a text is expected: hour, minute, second
\* and microsecond.  It is not an HH:MM text (WellFormedTime) and json.dump
\* cannot write it
TimeObject(hour, minute) == <<hour, minute, 0, 0>>

\* self.config['alarms'] after load_alarms: alarm['time'] = time_obj is an
\* assignment to the dictionary of the config itself, which is the one that
\* is appended to self.alarms; a record that is skipped keeps its text
AliasLoaded(cfg) ==
    [i \in 1..Len(cfg) |->
        IF Loadable(cfg[i]) THEN [cfg[i] EXCEPT !.time = TimeObject(@[1], @[2])]
        ELSE cfg[i]]

\* a and b are the same alarm, before and after a restart
SameAlarm(a, b) ==
    /\ a.hour = b.hour /\ a.minute = b.minute /\ a.repeat = b.repeat
    /\ a.light_control = b.light_control /\ a.is_snooze = b.is_snooze

\* history: what is known of an alarm stays known when the list is loaded again
KeepHistory(new, old) ==
    [i \in 1..Len(new) |->
        IF i <= Len(old) /\ SameAlarm(new[i], old[i])
        THEN [new[i] EXCEPT !.h_fired = old[i].h_fired,
                            !.h_rang = old[i].h_rang,
                            !.h_dismissed = old[i].h_dismissed,
                            !.h_snoozed = old[i].h_snoozed,
                            !.h_created = old[i].h_created,
                            !.h_late = old[i].h_late]
        ELSE new[i]]

\* the process ends at any point and is started again: __init__ runs
\* load_config and load_alarms, and the checker thread begins with a pass
Restart ==
    /\ alarms' = KeepHistory(LoadAlarms(file_alarms), alarms)
    /\ config_alarms' = AliasLoaded(file_alarms)
    /\ active_alarm' = None
    /\ detached' = NoAlarm
    /\ alert_shown' = FALSE
    /\ calls' = <<"load_alarms">>
    /\ fired' = <<>>
    /\ raised' = FALSE
    /\ pc' = "check"
    /\ c_i' = 0
    /\ c_cur' = 0
    /\ c_to_save' = <<>>
    /\ u_pc' = "idle"
    /\ u_to_save' = <<>>
    /\ form' = ResetForm
    /\ delete_arg' = <<>>
    /\ UNCHANGED <<now, file_alarms>>

\* the two threads interleaved, with the process ending at any statement
NextCrash ==
    \/ NextConc
    \/ Restart

SpecCrash == Init /\ [][NextCrash]_vars

\* ------------------------------------------- the store and its handlers
\* save_alarm as it reads the form, delete_alarm with any dictionary, and
\* load_alarms on any file.  The setup screen works on the 12-hour dial of
\* the real day; this specification has no clock and no checker thread.

Digits == <<"0", "1", "2", "3", "4", "5", "6", "7", "8", "9">>

IsDigit(c) == \E d \in 1..10 : Digits[d] = c

DigitValue(c) == (CHOOSE d \in 1..10 : Digits[d] = c) - 1

\* the text without a leading sign
Unsigned(s) == IF s # <<>> /\ s[1] \in {"-", "+"} THEN Tail(s) ELSE s

\* int(s) does not raise ValueError: an optional sign and at least one digit
IsInt(s) == Unsigned(s) # <<>> /\ \A i \in 1..Len(Unsigned(s)) : IsDigit(Unsigned(s)[i])

RECURSIVE DecimalValue(_)
DecimalValue(s) ==
    IF s = <<>> THEN 0
    ELSE 10 * DecimalValue(SubSeq(s, 1, Len(s) - 1)) + DigitValue(s[Len(s)])

\* int(s)
IntOf(s) == IF s[1] = "-" THEN 0 - DecimalValue(Unsigned(s)) ELSE DecimalValue(Unsigned(s))

\* mutant: every PM hour moved to the afternoon, noon included
To24HourNoonShifted(hour, am_pm) == IF am_pm = "PM" THEN hour + 12 ELSE hour

\* "Convert to 24-hour format"
To24Hour(hour, am_pm) ==
    IF am_pm = "PM" /\ hour # 12 THEN hour + 12
    ELSE IF am_pm = "AM" /\ hour = 12 THEN 0
    ELSE hour

\* mutant: only the hour is checked
ValidTimeHourOnly(hour, minute) == hour \in 0..23

\* datetime.time(hour, minute) does not raise ValueError
ValidTime(hour, minute) == hour \in 0..23 /\ minute \in 0..59

\* what the form fields can hold when save_alarm reads them: hour_var,
\* minute_var, am_pm_var, repeat_var, light_control_var.  The handlers of the
\* dial and of the entries store hours 1..12 and minutes 00..59 only; the
\* other texts are what another caller of the StringVars can leave there.
FormInputs ==
    {<<<<"1", "2">>, <<"0", "0">>, "AM", FALSE, FALSE>>,
     <<<<"1", "2">>, <<"3", "0">>, "PM", TRUE, FALSE>>,
     <<<<"1">>, <<"0", "5">>, "PM", FALSE, TRUE>>,
     <<<<"1", "3">>, <<"0", "0">>, "PM", FALSE, FALSE>>,
     <<<<"1", "3">>, <<"0", "0">>, "AM", FALSE, TRUE>>,
     <<<<"7">>, <<"6", "0">>, "AM", TRUE, TRUE>>,
     <<<<"x">>, <<"0", "0">>, "AM", FALSE, FALSE>>,
     <<<<>>, <<"1", "5">>, "PM", FALSE, TRUE>>,
     <<<<"-", "1">>, <<"0", "0">>, "AM", TRUE, FALSE>>}

\* the user (or another caller) fills in the setup form
SetFormFields ==
    /\ \E inp \in FormInputs :
          form' = [hour_var |-> inp[1], minute_var |-> inp[2], am_pm_var |-> inp[3],
                   repeat_var |-> inp[4], light_control_var |-> inp[5]]
    /\ calls' = <<>>
    /\ fired' = <<>>
    /\ raised' = FALSE
    /\ UNCHANGED <<now, pc, alarms, active_alarm, detached, alert_shown, config_alarms,
                   file_alarms, locals, delete_arg>>

\* the except branch of save_alarm: messagebox.showerror("Error", "Invalid time: ...")
RejectForm(m) == Log(m, <<"showerror">>)

\* save_alarm, reading the form fields
SaveAlarmForm ==
    /\ Len(alarms) < MaxAlarms
    /\ IF ~IsInt(form.hour_var) \/ ~IsInt(form.minute_var)
       THEN Commit(RejectForm(Mem))
       ELSE LET hour == To24Hour(IntOf(form.hour_var), form.am_pm_var)
                minute == IntOf(form.minute_var)
                m1 == [Mem EXCEPT !.alarms =
                          Append(@, NewAlarm(hour, minute, form.repeat_var,
                                             form.light_control_var))]
            IN  IF ~ValidTime(hour, minute)
                THEN Commit(RejectForm(Mem))
                ELSE Commit(Log(SaveAlarms(m1), <<"show_main_screen">>))
    /\ UNCHANGED <<now, pc, locals, form, delete_arg>>

\* mutant: an alarm that is not in the list is passed over in silence
RemoveQuiet(m, a) ==
    IF \E k \in 1..Len(m.alarms) : Dict(m.alarms[k]) = Dict(a)
    THEN LET k == CHOOSE k \in 1..Len(m.alarms) :
                    /\ Dict(m.alarms[k]) = Dict(a)
                    /\ \A j \in 1..(k - 1) : Dict(m.alarms[j]) # Dict(a)
         IN  Log([m EXCEPT !.alarms = RemoveAt(@, k)], <<"remove">>)
    ELSE Log(m, <<"remove">>)

\* self.alarms.remove(a): the first element equal to a is removed, and
\* ValueError is raised when there is none
Remove(m, a) ==
    IF \E k \in 1..Len(m.alarms) : Dict(m.alarms[k]) = Dict(a)
    THEN LET k == CHOOSE k \in 1..Len(m.alarms) :
                    /\ Dict(m.alarms[k]) = Dict(a)
                    /\ \A j \in 1..(k - 1) : Dict(m.alarms[j]) # Dict(a)
         IN  Log([m EXCEPT !.alarms = RemoveAt(@, k)], <<"remove">>)
    ELSE [Log(m, <<"remove">>) EXCEPT !.raised = TRUE]

\* dictionaries a caller of delete_alarm can hold that the list may not hold
StaleArgs == {NewAlarm(0, 0, FALSE, FALSE), NewAlarm(12, 30, TRUE, FALSE)}

\* delete_alarm(alarm) with any dictionary: remove, save_alarms, update_alarm_list
DeleteAlarmArg ==
    /\ \E a \in Range(alarms) \cup StaleArgs :
          /\ delete_arg' = <<a>>
          /\ LET m1 == Remove(Mem, a)
             IN  Commit(IF m1.raised THEN m1 ELSE SaveAlarms(m1))
    /\ UNCHANGED <<now, pc, locals, form>>

\* records of the "alarms" list of a config file
GoodRecord(hour, minute) == SavedCopy(NewAlarm(hour, minute, FALSE, TRUE))

\* a record without the key 'time'
NoTime == [repeat |-> TRUE, light_control |-> FALSE, active |-> TRUE,
           triggered_today |-> FALSE, is_snooze |-> FALSE]

\* a record whose 'time' is not an HH:MM text: "25:00", "07:60", "7", "07:30:15", ""
BadTime(t) == [GoodRecord(7, 30) EXCEPT !.time = t]

\* the "alarms" lists of the config files the program is started on
FileInputs ==
    {<<GoodRecord(7, 30), NoTime, GoodRecord(23, 59)>>,
     <<BadTime(<<25, 0>>), GoodRecord(0, 0)>>,
     <<GoodRecord(7, 30), BadTime(<<7, 60>>)>>,
     <<BadTime(<<7>>), BadTime(<<7, 30, 15>>), BadTime(<<>>)>>,
     <<NoTime>>}

\* alarm_config.json is written by something else than this process
EditConfigFile ==
    /\ \E f \in FileInputs : file_alarms' = f
    /\ calls' = <<>>
    /\ fired' = <<>>
    /\ raised' = FALSE
    /\ UNCHANGED <<now, pc, alarms, active_alarm, detached, alert_shown, config_alarms,
                   locals, form, delete_arg>>

NextStore ==
    \/ SetFormFields
    \/ SaveAlarmForm
    \/ DeleteAlarmArg
    \/ EditConfigFile
    \/ Restart

SpecStore == Init /\ [][NextStore]_vars

\* ------------------------------------------- the durable write can fail
\* save_config opens alarm_config.json with 'w' and dumps self.config into it.
\* open can raise (the file is left as it was) and the dump can raise after
\* the file was truncated (what is left cannot be parsed, and load_config
\* then starts from default_config, which has no alarms).
DiskResults == {"ok", "open_fails", "write_fails"}

\* save_config: one attempt to write the file
SaveConfig(m, disk) ==
    IF disk = "ok" THEN Log([m EXCEPT !.file_alarms = m.config_alarms], <<"save_config">>)
    ELSE [Log([m EXCEPT !.file_alarms = IF disk = "write_fails" THEN <<>> ELSE @],
              <<"save_config">>)
            EXCEPT !.raised = TRUE]

\* save_alarms: config['alarms'] is rebuilt from the list, then save_config
SaveAlarmsDisk(m, disk) == SaveConfig([m EXCEPT !.config_alarms = SavedList(m.alarms)], disk)

\* save_alarm: an exception of save_alarms reaches the except branch of the
\* handler, after the append
SaveAlarmDisk ==
    /\ Len(alarms) < MaxAlarms
    /\ \E inp \in SetupInputs, disk \in DiskResults :
          LET m1 == [Mem EXCEPT !.alarms =
                        Append(@, NewAlarm(inp[1][1], inp[1][2], inp[2], inp[3]))]
              m2 == SaveAlarmsDisk(m1, disk)
          IN  IF m2.raised
              THEN Commit(Log([m2 EXCEPT !.raised = FALSE], <<"showerror">>))
              ELSE Commit(Log(m2, <<"show_main_screen">>))
    /\ UNCHANGED <<now, pc, locals, form, delete_arg>>

\* snooze_alarm: an exception of save_alarms ends the handler before the
\* alert frame is hidden and self.active_alarm is cleared
SnoozeAlarmDisk ==
    /\ IF active_alarm = None
       THEN Commit(NoSession(Mem))
       ELSE /\ Len(alarms) < MaxAlarms
            /\ \E disk \in DiskResults :
                  LET m1 == Log(Mem, <<"sound_stop">>)
                      late == pc = "sleep"
                      m2 == WithActive(m1, [ActiveDict(m1) EXCEPT
                                              !.h_snoozed = IF late THEN now + 1 ELSE now])
                      m3 == [m2 EXCEPT !.alarms =
                                Append(@, SnoozeRecord(now, ActiveDict(m1), late))]
                      m4 == SaveAlarmsDisk(m3, disk)
                  IN  Commit(IF m4.raised THEN m4 ELSE CloseSession(m4))
    /\ UNCHANGED <<now, pc, locals, form, delete_arg>>

\* dismiss_alarm: likewise, for the one-time alarm it deactivates
DismissAlarmDisk ==
    /\ IF active_alarm = None
       THEN Commit(NoSession(Mem))
       ELSE \E disk \in DiskResults :
               LET a == ActiveDict(Mem)
                   m1 == Log(Mem, <<"sound_stop">>)
                   m2 == IF a.light_control THEN ControlLight(m1, FALSE, "success") ELSE m1
                   m3 == WithActive(m2, [ActiveDict(m2) EXCEPT !.h_dismissed = Day(now)])
                   m4 == IF Deactivates(a)
                         THEN SaveAlarmsDisk(WithActive(m3, [ActiveDict(m3) EXCEPT
                                                               !.active = FALSE]), disk)
                         ELSE m3
               IN  Commit(IF m4.raised THEN m4 ELSE CloseSession(m4))
    /\ UNCHANGED <<now, pc, locals, form, delete_arg>>

\* the body of the loop of check_alarms for self.alarms[i]
CheckOneDisk(m, i, disk) ==
    LET a == m.alarms[i] IN
    IF ~a.active THEN m
    ELSE IF ~TimeMatches(now, a) THEN m
    ELSE IF AlreadyTriggered(a) THEN m
    ELSE LET m1 == TriggerAlarm(m, i, "success", TRUE) IN
         IF ~m1.alarms[i].repeat
         THEN SaveAlarmsDisk([m1 EXCEPT !.alarms[i].triggered_today = TRUE], disk)
         ELSE m1

\* check_alarms: an exception of save_alarms ends the loop
RECURSIVE CheckFromDisk(_, _, _)
CheckFromDisk(i, m, disk) ==
    IF i > Len(m.alarms) \/ m.raised THEN m
    ELSE CheckFromDisk(i + 1, CheckOneDisk(m, i, disk), disk)

\* _alarm_checker: try: self.check_alarms() except: print("Error in alarm checker")
CheckAlarmsDisk ==
    /\ pc = "check"
    /\ \E disk \in IF CheckFromDisk(1, Mem, "ok").calls = <<>> THEN {"ok"} ELSE DiskResults :
          LET m == MarkFired(CheckFromDisk(1, Mem, disk))
          IN  Commit(IF m.raised THEN Log(m, <<"print">>) ELSE m)
    /\ pc' = "sleep"
    /\ UNCHANGED <<now, locals, form, delete_arg>>

NextDisk ==
    \/ CheckAlarmsDisk
    \/ Sleep
    \/ SaveAlarmDisk
    \/ SnoozeAlarmDisk
    \/ DismissAlarmDisk

SpecDisk == Init /\ [][NextDisk]_vars

\* ------------------------------------------- passes that take time
\* A pass of check_alarms takes time, so the passes do not start 30 seconds
\* apart: with a pass of less than 30 seconds the next pass starts 30 to 60
\* seconds after this one, which is in the next 30-second slot of the wall
\* clock or in the one after it.  The alert is resolved by dismissal here.

\* mutant: a pass that can take more than 30 seconds
PassPeriodsSlowPass == {1, 2, 3}

\* the slots from the start of a pass to the start of the next one
PassPeriods == {1, 2}

\* history kept up with the clock when it moves from slot t to slot u
TickDrift(a, t, u) ==
    [a EXCEPT !.h_fired = @ /\ AbsMinute(u) = AbsMinute(t),
              !.h_snoozed = IF @ >= 0 /\ u >= SnoozeEnd(@) THEN -1 ELSE @]

\* _alarm_checker: the rest of the pass and time.sleep(30)
SleepDrift ==
    /\ pc = "sleep"
    /\ \E d \in PassPeriods :
          /\ now + d <= MaxSlot
          /\ now' = now + d
          /\ alarms' = [i \in 1..Len(alarms) |-> TickDrift(alarms[i], now, now + d)]
          /\ detached' = IF active_alarm = Detached THEN TickDrift(detached, now, now + d)
                         ELSE detached
    /\ pc' = "check"
    /\ calls' = <<>>
    /\ fired' = <<>>
    /\ raised' = FALSE
    /\ UNCHANGED <<form, delete_arg, active_alarm, alert_shown, config_alarms, file_alarms, locals>>

NextDrift ==
    \/ CheckAlarms
    \/ SleepDrift
    \/ SaveAlarm
    \/ DeleteAlarm
    \/ DismissAlarm

\* the checker thread runs for as long as the application does: a pass that
\* is due is run (the step of CheckAlarms, which takes pc from "check" to
\* "sleep"), and a sleep comes to its end
SpecDrift ==
    Init /\ [][NextDrift]_vars
         /\ WF_pc(pc = "check" /\ pc' = "sleep") /\ WF_vars(SleepDrift)

\* ------------------------------------------- edits during a pass
\* The UI thread runs save_alarm and delete_alarm while the checker thread is
\* inside the loop of check_alarms.  Here the loop advances one alarm at a
\* time and the handlers of the UI thread run between two alarms.  The
\* iterator of "for alarm in self.alarms" is an index into the list: c_i is
\* the position it yields next, whatever happened to the list meanwhile.

\* check_alarms: now = datetime.datetime.now().time(); iter(self.alarms)
EditStart ==
    /\ pc = "check"
    /\ pc' = "iter"
    /\ c_i' = 1
    /\ c_cur' = 0
    /\ alarms' = [i \in 1..Len(alarms) |-> [alarms[i] EXCEPT !.h_seen = 0]]
    /\ calls' = <<>>
    /\ fired' = <<>>
    /\ raised' = FALSE
    /\ UNCHANGED <<form, delete_arg, now, active_alarm, detached, alert_shown, config_alarms,
                   file_alarms, c_to_save, u_pc, u_to_save>>

\* for alarm in self.alarms: the next element and the body of the loop for
\* it, or the end of the loop
EditIter ==
    /\ pc = "iter"
    /\ IF c_i > Len(alarms)
       THEN /\ pc' = "sleep"
            /\ UNCHANGED <<alarms, active_alarm, detached, alert_shown, config_alarms,
                           file_alarms, calls, fired, raised, c_i, c_cur>>
       ELSE /\ LET m0 == [Mem EXCEPT !.calls = calls, !.fired = fired,
                                     !.alarms[c_i].h_seen = IF @ >= 0 THEN @ + 1 ELSE @]
               IN  Commit(MarkFired(CheckOne(m0, c_i, "success", TRUE)))
            /\ c_i' = c_i + 1
            /\ c_cur' = c_i
            /\ pc' = "iter"
    /\ UNCHANGED <<form, delete_arg, now, c_to_save, u_pc, u_to_save>>

NextEdit ==
    \/ EditStart
    \/ EditIter
    \/ Sleep
    \/ SaveAlarm
    \/ DeleteAlarm
    \/ DismissAlarm

SpecEdit == Init /\ [][NextEdit]_vars

\* ------------------------------------------- the settings screen
\* json.dump(self.config, f) can write every record of config['alarms']:
\* none holds a datetime.time
Serializable(cfg) ==
    \A i \in 1..Len(cfg) : "time" \in DOMAIN cfg[i] => Len(cfg[i].time) # 4

\* save_settings: the settings are copied into self.config, then
\* save_config, init_tuya, showinfo and show_main_screen.  save_config opens
\* the file with 'w' and json.dump raises TypeError at the first
\* datetime.time, leaving a file that ends in the middle of the "alarms"
\* list; load_config cannot parse such a file and starts from
\* default_config, which has no alarms.
SaveSettings ==
    /\ IF Serializable(config_alarms)
       THEN Commit(Log([Mem EXCEPT !.file_alarms = config_alarms],
                       <<"save_config", "showinfo", "show_main_screen">>))
       ELSE Commit([Log([Mem EXCEPT !.file_alarms = <<>>], <<"save_config">>)
                      EXCEPT !.raised = TRUE])
    /\ UNCHANGED <<now, pc, locals, form, delete_arg>>

NextSettings ==
    \/ SetFormFields
    \/ SaveAlarmForm
    \/ DeleteAlarmArg
    \/ EditConfigFile
    \/ Restart
    \/ SaveSettings

SpecSettings == Init /\ [][NextSettings]_vars

\* ------------------------------------------- records with missing keys
\* load_alarms only looks at 'time', so a record of the config file without
\* 'active' or 'repeat' is loaded as it is.

\* a record of the config file for the alarm 00:01 with light control
\* (booleans: repeat, active), and the same record without one of its keys
RecordOf(repeat, active) ==
    [SavedCopy(NewAlarm(0, 1, repeat, TRUE)) EXCEPT !.active = active]

\* the record r without its key k
Without(r, k) == [x \in (DOMAIN r) \ {k} |-> r[x]]

\* the "alarms" lists of the config files: a record without a key before or
\* after complete records
KeyInputs ==
    {<<Without(RecordOf(TRUE, TRUE), "active"), RecordOf(TRUE, TRUE)>>,
     <<RecordOf(FALSE, TRUE), Without(RecordOf(TRUE, TRUE), "repeat")>>,
     <<Without(RecordOf(FALSE, TRUE), "repeat"), RecordOf(FALSE, TRUE)>>,
     <<RecordOf(TRUE, FALSE), RecordOf(TRUE, TRUE)>>}

\* alarm_config.json is written by something else than this process
EditConfigKeys ==
    /\ \E f \in KeyInputs : file_alarms' = f
    /\ calls' = <<>>
    /\ fired' = <<>>
    /\ raised' = FALSE
    /\ UNCHANGED <<now, pc, alarms, active_alarm, detached, alert_shown, config_alarms,
                   locals, form, delete_arg>>

NextLoaded ==
    \/ EditConfigKeys
    \/ Restart
    \/ CheckAlarms
    \/ Sleep
    \/ DismissAlarm

SpecLoaded == Init /\ [][NextLoaded]_vars

\* ------------------------------------------- snoozes, and the process ending
\* The two threads interleaved as in SpecCrash, with the alert resolved on
\* the UI thread between two of its save_alarm calls.
UiSnooze == u_pc = "idle" /\ SnoozeAlarm

UiDismiss == u_pc = "idle" /\ DismissAlarm

NextSnoozeCrash ==
    \/ NextConc
    \/ Restart
    \/ UiSnooze
    \/ UiDismiss

SpecSnoozeCrash == Init /\ [][NextSnoozeCrash]_vars

\* ================================================================ claims
\* a step of the checker thread that runs one check_alarms pass
CheckStep == pc = "check" /\ pc' = "sleep"

Positions(lst) == 1..Len(lst)

\* C1: every enabled, non-snoozed alarm whose time equals the current minute
\* is fired exactly once in that minute: a pass fires it if it has not fired
\* in this minute yet, and no pass fires it a second time in the same minute.
C1_FiresExactlyOncePerMinute ==
    [][CheckStep =>
        \A i \in Positions(alarms) :
            LET a == alarms[i] IN
            (a.active /\ a.h_snoozed = -1 /\ Hour(now) = a.hour /\ Minute(now) = a.minute)
                => IF a.h_fired THEN i \notin Range(fired') ELSE i \in Range(fired')]_vars

C3_RepeatingAlarmFiresNextDay ==
    [][/\ \A i \in Positions(alarms') :
             (alarms'[i].repeat /\ alarms'[i].h_dismissed >= 0) => alarms'[i].active
       /\ CheckStep => \A i \in Positions(alarms) :
             LET a == alarms[i] IN
             (a.repeat /\ a.h_dismissed >= 0 /\ Day(now) > a.h_dismissed
                /\ Hour(now) = a.hour /\ Minute(now) = a.minute)
                 => i \in Range(fired')]_vars

\* C3 witness: a dismissed repeating alarm has just fired on a later day.
C3_Witness ==
    /\ pc = "sleep"
    /\ \E i \in Range(fired) :
          alarms[i].repeat /\ alarms[i].h_dismissed >= 0 /\ Day(now) > alarms[i].h_dismissed

\* C4: from a snooze_alarm call at T until T+N no pass fires the snoozed
\* alarm, neither the record that was ringing nor the record the snooze made.
C4_NoFireWhileSnoozed ==
    [][CheckStep =>
        \A i \in Range(fired') :
            LET a == alarms[i]
                first == IF a.h_late THEN a.h_created + 1 ELSE a.h_created
            IN  /\ a.h_snoozed = -1
                /\ a.h_created >= 0 => now >= SnoozeEnd(first)]_vars

C6_MidnightReset ==
    [][IF CheckStep /\ Hour(now) = 0 /\ Minute(now) = 0
       THEN /\ \A i \in Positions(alarms') : ~alarms'[i].triggered_today
            /\ \A i \in Positions(file_alarms') : ~file_alarms'[i].triggered_today
       ELSE alarms' = alarms =>
                \A i \in Positions(alarms) :
                    alarms[i].triggered_today => alarms'[i].triggered_today]_vars

\* C8: while an alarm is ringing, a pass neither replaces active_alarm nor
\* invokes the light and sound collaborators again; a pass opens at most one
\* alert session.
C8_OneAlertSession ==
    [][CheckStep =>
        /\ Len(fired') <= 1
        /\ active_alarm # None => (active_alarm' = active_alarm /\ calls' = <<>>)]_vars

\* C9: a pass fires every enabled alarm whose time equals the current minute
\* and that is due (repeating, or not yet triggered), whatever else fires.
C9_AllMatchingAlarmsFire ==
    [][CheckStep =>
        \A i \in Positions(alarms) :
            LET a == alarms[i] IN
            (a.active /\ Hour(now) = a.hour /\ Minute(now) = a.minute
               /\ (a.repeat \/ ~a.triggered_today))
                => i \in Range(fired')]_vars

\* C9 witness: one pass has fired two alarms.
C9_Witness == pc = "sleep" /\ Len(fired) >= 2

C7_NoLostWrite ==
    (/\ u_pc = "idle" /\ pc = "sleep" /\ alarms # <<>>
     /\ Hour(now) = alarms[Len(alarms)].hour
     /\ Minute(now) = alarms[Len(alarms)].minute) =>
        /\ ~raised
        /\ Len(file_alarms) = Len(alarms)
        /\ \A i \in Positions(alarms) :
              file_alarms[i].time = <<alarms[i].hour, alarms[i].minute>>

\* a step of snooze_alarm or dismiss_alarm: both begin by stopping the sound
ResolveStep == calls' # <<>> /\ calls'[1] = "sound_stop"

\* the first pass after the snooze_alarm call that made the snooze record s
FirstPass(s) == IF s.h_late THEN s.h_created + 1 ELSE s.h_created

\* s is a snooze record made by a snooze of the alarm a, and it has yet to fire
PendingSnoozeOf(a, s) ==
    /\ a.h_snoozed >= 0 /\ s.h_created >= 0 /\ FirstPass(s) = a.h_snoozed
    /\ s.active /\ ~s.triggered_today

\* C13: dismiss_alarm clears any pending snooze of the dismissed alarm: after
\* the dismissal the list holds no snooze record of that alarm that will fire.
C13_DismissClearsPendingSnooze ==
    [][(ResolveStep /\ active_alarm # None /\ Len(alarms') = Len(alarms)) =>
        \A j \in Positions(alarms') : ~PendingSnoozeOf(ActiveDict(Mem), alarms'[j])]_vars

\* C14: a snooze_alarm or dismiss_alarm call closes the session, and a call
\* when no session is active ends in an error and changes neither the alarm
\* list, nor the saved alarms, nor the light.
C14_ClosedSessionRejects ==
    [][ResolveStep =>
        /\ active_alarm' = None
        /\ IF active_alarm = None
           THEN /\ raised'
                /\ alarms' = alarms
                /\ config_alarms' = config_alarms
                /\ file_alarms' = file_alarms
                /\ \A k \in Positions(calls') : calls'[k] \notin {"light_on", "light_off"}
           ELSE ~raised']_vars

\* C14 witness: a call was rejected for want of a session, after a session was
\* closed by a snooze (the list holds its record).
C14_Witness ==
    /\ raised /\ calls = <<"sound_stop">> /\ active_alarm = None
    /\ \E i \in Positions(alarms) : alarms[i].is_snooze

\* the first slot after t whose time of day is that of the record r
NextOccurrence(t, r) ==
    CHOOSE x \in (t + 1)..(t + SlotsPerDay) :
        Hour(x) = r.hour /\ Minute(x) = r.minute /\ Second(x) = r.second

\* C15: snooze_alarm stops the sound, appends a record whose time is that of
\* now + snooze_time minutes, a moment strictly after the call (the next time
\* the clock shows the recorded time is exactly then, across midnight too),
\* saves the list and closes the session.
C15_SnoozeRecordsTarget ==
    [][(ResolveStep /\ active_alarm # None /\ Len(alarms') # Len(alarms)) =>
        LET r == alarms'[Len(alarms')] IN
        /\ Len(alarms') = Len(alarms) + 1
        /\ \A i \in Positions(alarms) : Dict(alarms'[i]) = Dict(alarms[i])
        /\ r.hour = Hour(SnoozeEnd(now)) /\ r.minute = Minute(SnoozeEnd(now))
        /\ r.second = Second(SnoozeEnd(now))
        /\ NextOccurrence(now, r) = SnoozeEnd(now)
        /\ SnoozeEnd(now) > now
        /\ r.active /\ r.is_snooze /\ ~r.repeat /\ ~r.triggered_today
        /\ r.light_control = ActiveDict(Mem).light_control
        /\ file_alarms' = SavedList(alarms')
        /\ active_alarm' = None /\ ~alert_shown' /\ ~raised']_vars

\* C15 witness: a snooze has just been recorded whose target lies on the next
\* day.
C15_Witness ==
    /\ active_alarm = None /\ calls = <<"sound_stop">> /\ ~raised /\ alarms # <<>>
    /\ LET r == alarms[Len(alarms)] IN
          /\ r.h_created = now
          /\ Day(SnoozeEnd(now)) > Day(now)

\* C16: when the ringing alarm was deleted before its session is resolved,
\* snooze_alarm and dismiss_alarm leave the alarm list and the saved alarms as
\* they are, and close the session.
C16_ResolveAfterDeleteKeepsStore ==
    [][(ResolveStep /\ active_alarm = Detached) =>
        /\ alarms' = alarms
        /\ file_alarms' = file_alarms
        /\ active_alarm' = None
        /\ ~raised']_vars

\* C11: a non-repeating alarm does not fire a second time in the minute it
\* fired in, wherever the process ends after the firing began and is started
\* again within that minute.
C11_NoSecondFireAfterCrash ==
    [][Len(fired') > Len(fired) =>
        LET a == alarms[fired'[Len(fired')]] IN ~(~a.repeat /\ a.h_fired)]_vars

\* C12: between any two operations the alarms in the file are those of the
\* in-memory list, and load_alarms makes of the file a list with the same
\* hour, minute, repeat, light_control, active, triggered_today (and
\* is_snooze) values, in the same order.
C12_WriteThrough ==
    /\ file_alarms = SavedList(alarms)
    /\ config_alarms = file_alarms
    /\ SavedList(LoadAlarms(file_alarms)) = SavedList(alarms)

\* C12 witness: the list holds a one-time alarm that fired and was dismissed,
\* and a snooze record whose time has seconds, which the file does not keep.
C12_Witness ==
    /\ \E i \in Positions(alarms) : alarms[i].triggered_today /\ ~alarms[i].active
    /\ \E j \in Positions(alarms) :
          /\ alarms[j].is_snooze /\ alarms[j].second # 0
          /\ LoadAlarms(file_alarms)[j].second = 0

\* C17: delete_alarm removes the given alarm and saves the remaining list; for
\* an alarm that is not in the list it ends in an error and leaves the list
\* and the saved alarms as they are.
C17_DeleteRemovesOrFails ==
    [][calls' = <<"remove">> =>
        IF \E k \in Positions(alarms) : Dict(alarms[k]) = Dict(delete_arg'[1])
        THEN /\ ~raised'
             /\ \E k \in Positions(alarms) :
                   Dict(alarms[k]) = Dict(delete_arg'[1]) /\ alarms' = RemoveAt(alarms, k)
             /\ file_alarms' = SavedList(alarms')
             /\ config_alarms' = file_alarms'
        ELSE /\ raised'
             /\ alarms' = alarms
             /\ file_alarms' = file_alarms
             /\ config_alarms' = config_alarms]_vars

\* C17 witness: a delete_alarm call for an alarm that is not in the list has
\* failed while the list holds other alarms.
C17_Witness ==
    /\ calls = <<"remove">> /\ raised /\ alarms # <<>> /\ delete_arg # <<>>
    /\ \A k \in Positions(alarms) : Dict(alarms[k]) # Dict(delete_arg[1])

\* a step of save_alarm: it ends in show_main_screen or in the error box
SaveAlarmStep == calls' \in {<<"show_main_screen">>, <<"showerror">>}

\* the form holds a well-formed time: two numbers, the hour within 0..23
\* after the AM/PM conversion and the minute within 0..59
WellFormedForm ==
    /\ IsInt(form.hour_var) /\ IsInt(form.minute_var)
    /\ IntOf(form.minute_var) \in 0..59
    /\ LET h == IntOf(form.hour_var) IN
          IF form.am_pm_var = "PM" /\ h # 12 THEN h + 12 \in 0..23
          ELSE IF form.am_pm_var = "AM" /\ h = 12 THEN TRUE
          ELSE h \in 0..23

\* C18: save_alarm on a form whose time is not well formed reports an error
\* and leaves the alarm list and the saved alarms unchanged.
C18_InvalidTimeRejected ==
    [][(SaveAlarmStep /\ ~WellFormedForm) =>
        /\ calls' = <<"showerror">>
        /\ ~raised'
        /\ alarms' = alarms
        /\ file_alarms' = file_alarms
        /\ config_alarms' = config_alarms]_vars

\* C18 witness: a form with a minute out of range has been rejected while the
\* list holds an alarm.
C18_Witness ==
    /\ calls = <<"showerror">> /\ alarms # <<>>
    /\ IsInt(form.hour_var) /\ IsInt(form.minute_var) /\ IntOf(form.minute_var) > 59

\* C19: save_alarm on a well-formed form appends exactly one alarm, active,
\* not a snooze, not triggered, with the chosen time, repeat and light
\* control, and saves the whole list.
C19_SaveAlarmAddsOne ==
    [][(SaveAlarmStep /\ WellFormedForm) =>
        /\ calls' = <<"show_main_screen">>
        /\ Len(alarms') = Len(alarms) + 1
        /\ SubSeq(alarms', 1, Len(alarms)) = alarms
        /\ LET r == alarms'[Len(alarms')]
               h == IntOf(form.hour_var)
           IN  /\ r.active /\ ~r.is_snooze /\ ~r.triggered_today
               /\ r.repeat = form.repeat_var
               /\ r.light_control = form.light_control_var
               /\ r.minute = IntOf(form.minute_var)
               /\ r.hour \in 0..23
               /\ h \in 1..12 =>
                     r.hour = IF form.am_pm_var = "PM" THEN (h % 12) + 12 ELSE h % 12
        /\ file_alarms' = SavedList(alarms')
        /\ config_alarms' = file_alarms']_vars

\* C19 witness: the form 12:30 PM, repeating, has been saved as a second alarm.
C19_Witness ==
    /\ calls = <<"show_main_screen">> /\ Len(alarms) >= 2
    /\ form.am_pm_var = "PM" /\ IntOf(form.hour_var) = 12
    /\ alarms[Len(alarms)].hour = 12 /\ alarms[Len(alarms)].repeat

\* C20: load_alarms skips every record whose time is missing or is not an
\* HH:MM text, loads every other record with its values, in order, and does
\* not fail.
C20_LoadSkipsMalformed ==
    [][calls' = <<"load_alarms">> =>
        /\ ~raised'
        /\ SavedList(alarms') = SelectSeq(file_alarms, Loadable)]_vars

\* C20 witness: a file with a malformed record between two well-formed ones
\* has been loaded.
C20_Witness ==
    /\ calls = <<"load_alarms">> /\ Len(file_alarms) = 3 /\ Len(alarms) = 2
    /\ ~Loadable(file_alarms[2])

\* a step of the checker thread when the threads are interleaved: the UI
\* thread stays where it is
CheckerStep == u_pc' = u_pc /\ u_to_save' = u_to_save

\* C21: no step of a check_alarms pass, firing or not, takes an alarm off the
\* in-memory list or off the saved list: both keep their length and the times
\* of their entries.
C21_PassKeepsAlarms ==
    [][CheckerStep =>
        /\ Len(alarms') = Len(alarms)
        /\ \A i \in Positions(alarms) :
              alarms'[i].hour = alarms[i].hour /\ alarms'[i].minute = alarms[i].minute
        /\ Len(file_alarms') >= Len(file_alarms)
        /\ \A i \in Positions(file_alarms) :
              file_alarms'[i].time = file_alarms[i].time]_vars

\* the last handler tried to write the file and the write failed
WriteFailed(c, r) ==
    /\ \E k \in 1..Len(c) : c[k] = "save_config"
    /\ r \/ c[Len(c)] \in {"showerror", "print"}

\* C22: when the write of the file fails in save_alarm, snooze_alarm,
\* dismiss_alarm or a pass, the write is tried again, the handler completes
\* with the change kept in memory, and what the user is shown is not the
\* error box of an invalid time or of a failed collaborator.
C22_FailedWriteRetried ==
    [][WriteFailed(calls', raised') =>
        /\ Len(SelectSeq(calls', LAMBDA c : c = "save_config")) >= 2
        /\ ~raised'
        /\ config_alarms' = SavedList(alarms')
        /\ \A k \in Positions(calls') : calls'[k] # "showerror"]_vars

\* the wall-clock minutes the checker lives through
Minutes == 0..AbsMinute(MaxSlot)

\* C23: with passes of less than 30 seconds, the clock never leaves a minute
\* before a pass has run in it nor skips a minute between two passes, every
\* minute sees a pass, and a pass fires every enabled alarm of its minute
\* that is due (repeating, or not triggered yet).
C23_EveryMinuteEvaluated ==
    /\ [][/\ now' # now => (pc = "sleep" /\ AbsMinute(now') <= AbsMinute(now) + 1)
          /\ CheckStep =>
                \A i \in Positions(alarms) :
                    (alarms[i].active /\ TimeMatches(now, alarms[i])
                       /\ ~AlreadyTriggered(alarms[i]))
                        => (i \in Range(fired') /\ alarms'[i].h_fired)]_vars
    /\ \A m \in Minutes : <>(pc = "sleep" /\ AbsMinute(now) = m)

\* C23 witness: a pass that started in the second half of a minute has fired
\* a one-time alarm, which no earlier pass of that minute had fired.
C23_Witness ==
    /\ pc = "sleep" /\ fired # <<>> /\ Second(now) = 1
    /\ \E i \in Range(fired) : ~alarms[i].repeat /\ alarms[i].triggered_today

\* C24: when save_alarm or delete_alarm runs while a pass iterates the list,
\* the pass has, at its end, evaluated exactly once every alarm that was in
\* the list when it began and still is.
C24_EditKeepsPassWhole ==
    [][(pc = "iter" /\ pc' = "sleep") =>
        \A i \in Positions(alarms') :
            alarms'[i].h_seen >= 0 => alarms'[i].h_seen = 1]_vars

\* C25: trigger_alarm calls the light (on) exactly when the alarm has
\* light_control, then starts the sound, then shows the alert, and leaves
\* triggered_today as it is; check_alarms sets the flag of a one-time alarm
\* in its next statement, after the alert is shown.
C25_TriggerOrder ==
    [][/\ (pc = "trigger" /\ pc' # "trigger") =>
            /\ calls' = calls \o (IF alarms[c_cur].light_control THEN <<"light_on">> ELSE <<>>)
                              \o <<"sound_play", "alert">>
            /\ active_alarm' = c_cur /\ alert_shown'
            /\ alarms'[c_cur].triggered_today = alarms[c_cur].triggered_today
            /\ pc' = IF alarms[c_cur].repeat THEN "iter" ELSE "mark"
       /\ (pc = "mark" /\ pc' # "mark") =>
            /\ calls[Len(calls)] = "alert"
            /\ ~alarms[c_cur].repeat /\ alarms'[c_cur].triggered_today
            /\ calls' = calls]_vars

\* C25 witness: in one pass an alarm without light control and then a
\* one-time alarm with light control have fired, and the flag of the second
\* has been set.
C25_Witness ==
    /\ pc = "copy" /\ calls = <<"sound_play", "alert", "light_on", "sound_play", "alert">>
    /\ alarms[c_cur].triggered_today

\* the light collaborator is called in the sequence of calls c
LightCalled(c) == \E k \in 1..Len(c) : c[k] \in {"light_on", "light_off"}

\* C26: dismiss_alarm calls the light (off) exactly when the ringing alarm
\* has light_control, be it an alarm made by save_alarm or a snooze record,
\* and never switches it on; snooze_alarm does not call the light at all.
C26_LightOffPolicy ==
    [][(ResolveStep /\ active_alarm # None) =>
        IF Len(alarms') = Len(alarms)
        THEN /\ (\E k \in Positions(calls') : calls'[k] = "light_off")
                    <=> ActiveDict(Mem).light_control
             /\ \A k \in Positions(calls') : calls'[k] # "light_on"
        ELSE ~LightCalled(calls')]_vars

\* C26 witness: the ringing of a snooze record with light control has been
\* dismissed and the light was switched off.
C26_Witness ==
    /\ active_alarm = None /\ calls # <<>> /\ calls[1] = "sound_stop"
    /\ \E k \in Positions(calls) : calls[k] = "light_off"
    /\ \E i \in Positions(alarms) :
          /\ alarms[i].is_snooze /\ alarms[i].light_control
          /\ alarms[i].h_dismissed = Day(now)

\* C27: a pass in a minute that matches the time of an alarm with active =
\* true, on a day after the alarm was made, fires the alarm unless it has
\* fired in this minute already; this holds for a one-time alarm that fired
\* on an earlier day and was snoozed, not dismissed.
C27_NoEnabledAlarmIsDead ==
    [][(CheckStep /\ Day(now) > 0) =>
        \A i \in Positions(alarms) :
            (alarms[i].active /\ TimeMatches(now, alarms[i]) /\ ~alarms[i].h_fired)
                => i \in Range(fired')]_vars

\* C28: in every state after start-up, save_settings ends without an error
\* and leaves a config file from which load_alarms makes the alarm list that
\* is in memory.
C28_SaveSettingsKeepsAlarms ==
    [][(calls' # <<>> /\ calls'[1] = "save_config") =>
        /\ ~raised'
        /\ alarms' = alarms
        /\ SavedList(LoadAlarms(file_alarms')) = SavedList(alarms)]_vars

\* C29: a pass fires every alarm that has its keys, is enabled and due, and
\* whose time is the current minute, whatever the other records of the list
\* hold, a record without 'active' or 'repeat' included.
C29_OneRecordCannotBlock ==
    [][CheckStep =>
        \A i \in Positions(alarms) :
            (alarms[i].missing = {} /\ alarms[i].active /\ TimeMatches(now, alarms[i])
               /\ ~AlreadyTriggered(alarms[i]))
                => i \in Range(fired')]_vars

\* C30: a snooze record that has fired is not fired again by any later pass,
\* be it dismissed or snoozed again, the same day or a later one, before or
\* after the process is started again.
C30_SnoozeRecordRingsOnce ==
    [][Len(fired') > Len(fired) =>
        LET a == alarms[fired'[Len(fired')]] IN ~(a.is_snooze /\ a.h_rang)]_vars


====
